---- MODULE Spec2Model ----
(***************************************************************************)
(* A model of wall_haven.py, the bulk wallpaper downloader: the retrying   *)
(* request function make_request, the identifier ledger                    *)
(* save_wallpaper_ids_to_file, the paginated collector                     *)
(* fetch_wallpaper_ids_paginated and the thread pool of                    *)
(* download_wallpapers_concurrently with its units main, the link parser   *)
(* parse_url_params and the script that runs them in turn.                 *)
(*                                                                         *)
(* Durations are in tenths of a second (backoff_factor 0.3 s is 3).        *)
(* Strings the code takes apart (ledger lines, page numbers, URLs) are     *)
(* sequences of characters or of path segments.                            *)
(***************************************************************************)
EXTENDS Integers, Sequences, FiniteSets, TLC

VARIABLES
    script,         \* make_request: what the network answers to request 1, 2, ...
    mr,             \* make_request: the frame of the running call
    ledger,         \* wallpaper_ids.txt: its characters
    ledgerExists,   \* whether wallpaper_ids.txt exists
    ledger0,        \* the lines wallpaper_ids.txt held before the first persist call
    id_list,        \* the pic_ids handed to save_wallpaper_ids_to_file
    written,        \* per persist call so far, the identifiers it wrote, in order
    ledgerLog,      \* the log entries of the persist calls
    wallpaper_ids,  \* download_wallpapers_concurrently: its identifier list
    max_workers,    \* download_wallpapers_concurrently: its pool size
    files,          \* the directory: file name -> contents ("absent" when missing)
    files0,         \* the directory before the run
    orch,           \* the frame of download_wallpapers_concurrently
    unit,           \* per list position, the future and the frame of its main call
    writers,        \* file name -> the units that hold it open for writing
    openedBy,       \* file name -> the units that have opened it with mode 'wb'
    page_value,     \* params['page'] of the parsed link: a string of digits
    page_items,     \* the catalog: page number -> the identifiers of that page
    pg,             \* the frame of fetch_wallpaper_ids_paginated
    link,           \* the url handed to parse_url_params: its characters
    fields,         \* the fields the query string of link was put together from
    ps,             \* the frame of parse_url_params
    run             \* where the script of lines 227-273 stands

execVars == <<script, mr>>

ledgerVars == <<ledger, ledgerExists, ledger0, id_list, written, ledgerLog>>

poolVars == <<wallpaper_ids, max_workers, files, files0, orch, unit, writers, openedBy>>

pageVars == <<page_value, page_items, pg>>

scriptVars == <<link, fields, ps, run>>

vars ==
    <<script, mr, ledger, ledgerExists, ledger0, id_list, written, ledgerLog,
      wallpaper_ids, max_workers, files, files0, orch, unit, writers, openedBy,
      page_value, page_items, pg, link, fields, ps, run>>

(***************************************************************************)
(* make_request (lines 205-224)                                            *)
(***************************************************************************)

\* Length of the simulated answer sequences of one make_request call.
MaxScript == 4

\* retries=3, the default every caller uses.
retries == 3

\* backoff_factor=0.3 seconds, in tenths of a second.
backoff_factor == 3

\* What requests.get can do: raise a transport exception ("exc") or return a
\* response with a status code.
Outcomes == {"exc", "200", "204", "429", "404", "500"}

\* Response.raise_for_status() raises HTTPError for 4xx and 5xx.
ErrorStatuses == {"429", "404", "500"}

\* The value a Python function returns when it returns no response.
None == "None"

RECURSIVE Pow2(_)
Pow2(n) == IF n = 0 THEN 1 ELSE 2 * Pow2(n - 1)

\* backoff_factor * (2 ** attempt), lines 210 and 219.
wait_time_no_exponent(attempt) == backoff_factor * attempt
wait_time(attempt) == backoff_factor * Pow2(attempt)

LogEntry(level, event) == [level |-> level, event |-> event]

\* The frame of make_request on entry: range(retries) starts at attempt 0.
mr_start ==
    [pc |-> "loop", attempt |-> 0, response |-> None, requests |-> 0,
     waits |-> <<>>, log |-> <<>>]

\* Leaving the for-loop: when range(retries) is used up the function falls off
\* its end and returns None, logging nothing (after line 224).
mr_next_attempt(st) ==
    IF st.attempt + 1 < retries
    THEN [st EXCEPT !.attempt = @ + 1]
    ELSE [st EXCEPT !.attempt = @ + 1, !.pc = "done", !.response = None]

\* The 429 branch, lines 209-213: log at INFO, sleep, continue.
mr_rate_limited(st) ==
    mr_next_attempt(
        [st EXCEPT !.log = Append(@, LogEntry("INFO", "wait_429")),
                   !.waits = Append(@, wait_time(st.attempt))])

\* The except branch, lines 216-224.
mr_failed(st) ==
    IF st.attempt < retries - 1
    THEN mr_next_attempt(
             [st EXCEPT !.log = @ \o <<LogEntry("ERROR", "request_failed"),
                                      LogEntry("INFO", "wait_retry")>>,
                        !.waits = Append(@, wait_time(st.attempt))])
    ELSE [st EXCEPT !.log = @ \o <<LogEntry("ERROR", "request_failed"),
                                   LogEntry("ERROR", "gave_up")>>,
                    !.pc = "done", !.response = None]

\* The pass without response.raise_for_status() (line 216).
make_request_iter_no_raise(st, o) ==
    LET sent == [st EXCEPT !.requests = @ + 1] IN
    IF o = "exc" THEN mr_failed(sent)
    ELSE IF o = "429" THEN mr_rate_limited(sent)
    ELSE [sent EXCEPT !.pc = "done", !.response = o]

\* One pass of the loop body (lines 207-224) when requests.get does o.
make_request_iter(st, o) ==
    LET sent == [st EXCEPT !.requests = @ + 1] IN
    IF o = "exc" THEN mr_failed(sent)
    ELSE IF o = "429" THEN mr_rate_limited(sent)
    ELSE IF o \in ErrorStatuses THEN mr_failed(sent)
    ELSE [sent EXCEPT !.pc = "done", !.response = o]

RECURSIVE mr_run(_, _)
mr_run(st, answers) ==
    IF st.pc = "done" THEN st
    ELSE mr_run(make_request_iter(st, answers[st.requests + 1]), answers)

\* A whole call of make_request against the answers the network gives.
make_request(answers) == mr_run(mr_start, answers)

Scripts == [1..MaxScript -> Outcomes]

\* The parts of the program a specification leaves out stay as they start.
ExecIdle ==
    /\ script = <<>>
    /\ mr = mr_start

LedgerIdle ==
    /\ ledger = <<>>
    /\ ledgerExists = FALSE
    /\ ledger0 = <<>>
    /\ id_list = <<>>
    /\ written = <<>>
    /\ ledgerLog = <<>>

PoolIdle ==
    /\ wallpaper_ids = <<>>
    /\ max_workers = 1
    /\ files = <<>>
    /\ files0 = <<>>
    /\ orch = <<>>
    /\ unit = <<>>
    /\ writers = <<>>
    /\ openedBy = <<>>

PagesIdle ==
    /\ page_value = <<>>
    /\ page_items = <<>>
    /\ pg = <<>>

ScriptIdle ==
    /\ link = <<>>
    /\ fields = <<>>
    /\ ps = <<>>
    /\ run = "none"

InitExec ==
    /\ ScriptIdle
    /\ script \in Scripts
    /\ mr = mr_start
    /\ LedgerIdle
    /\ PoolIdle
    /\ PagesIdle

\* An attempt whose request raises or returns an error status other than 429.
MRAttemptFails ==
    /\ mr.pc = "loop"
    /\ script[mr.requests + 1] \in ({"exc"} \cup ErrorStatuses) \ {"429"}
    /\ mr' = make_request_iter(mr, script[mr.requests + 1])
    /\ UNCHANGED <<script, ledgerVars, poolVars, pageVars, scriptVars>>

\* An attempt answered by 429.
MRAttemptRateLimited ==
    /\ mr.pc = "loop"
    /\ script[mr.requests + 1] = "429"
    /\ mr' = make_request_iter(mr, script[mr.requests + 1])
    /\ UNCHANGED <<script, ledgerVars, poolVars, pageVars, scriptVars>>

\* An attempt answered by a response that passes raise_for_status.
MRAttemptReturns ==
    /\ mr.pc = "loop"
    /\ script[mr.requests + 1] \notin {"exc"} \cup ErrorStatuses
    /\ mr' = make_request_iter(mr, script[mr.requests + 1])
    /\ UNCHANGED <<script, ledgerVars, poolVars, pageVars, scriptVars>>

NextExec ==
    \/ MRAttemptFails
    \/ MRAttemptRateLimited
    \/ MRAttemptReturns

SpecExec == InitExec /\ [][NextExec]_vars

\* The loop of make_request takes its next pass whenever it can: nothing in
\* it waits for another thread.
FairSpecExec == SpecExec /\ WF_vars(NextExec)

\* The answers start with k rate-limit responses followed by a response that
\* is no error.
RateLimitedThenSuccess(k) ==
    /\ \A i \in 1..k : script[i] = "429"
    /\ script[k + 1] \notin {"exc"} \cup ErrorStatuses

\* Every request after the first comes after a sleep, and the sleep before
\* retry number a (a = 0, 1, ...) is at least backoff_factor * 2^a.
BackoffFloor ==
    /\ mr.requests <= Len(mr.waits) + 1
    /\ \A a \in 0..(Len(mr.waits) - 1) : mr.waits[a + 1] >= backoff_factor * Pow2(a)

\* C1 as stated: for every k >= 0, a call answered by k rate-limit responses and
\* then a success returns that success within 3 requests, each retry after its
\* backoff.
C1_AnyRateLimitRunReturnsSuccess ==
    \A k \in 0..(MaxScript - 1) :
        (RateLimitedThenSuccess(k) /\ mr.pc = "done") =>
            /\ mr.response = script[k + 1]
            /\ mr.requests <= retries
            /\ BackoffFloor

\* C1 amended: for every k with 0 <= k <= 2 (fewer rate-limit responses than
\* attempts), a call answered by k rate-limit responses and then a success
\* never makes more than 3 requests, sleeps at least backoff_factor * 2^a
\* before retry number a, and eventually returns that success after exactly
\* k + 1 requests.
C1_RateLimitRunBelowRetriesReturnsSuccess ==
    \A k \in 0..(retries - 1) :
        RateLimitedThenSuccess(k) =>
            /\ [](mr.requests <= retries /\ BackoffFloor)
            /\ <>(/\ mr.pc = "done"
                  /\ mr.response = script[k + 1]
                  /\ mr.requests = k + 1
                  /\ Len(mr.waits) = k)

\* C1 witness: a call that was rate-limited twice, slept twice and returned
\* the success on its third request.
C1_Witness ==
    /\ RateLimitedThenSuccess(2)
    /\ mr.pc = "done"
    /\ mr.response = script[3]
    /\ mr.requests = 3
    /\ mr.waits = <<3, 6>>

\* All of the call's attempts failed, by a 429, an error status or an exception.
AllAttemptsFail == \A i \in 1..retries : script[i] \in {"exc"} \cup ErrorStatuses

\* C2: a call never makes more than 3 requests, and when all 3 attempts fail it
\* returns no response and has logged the exhaustion at error level.
C2_ExhaustionReturnsNoneAndLogsError ==
    /\ mr.requests <= retries
    /\ (mr.pc = "done" /\ AllAttemptsFail) =>
           /\ mr.response = None
           /\ \E i \in 1..Len(mr.log) : mr.log[i] = LogEntry("ERROR", "gave_up")

\* C19: a finished call hands its caller either no response or the response
\* of its last request, whose status is neither 429 nor another 4xx/5xx; when
\* its last request failed or was answered by an error status, it hands back
\* no response.
C19_ReturnsNoneOrNonErrorResponse ==
    mr.pc = "done" =>
        /\ mr.response # None =>
               /\ mr.response \in Outcomes \ ({"exc"} \cup ErrorStatuses)
               /\ mr.response = script[mr.requests]
        /\ script[mr.requests] \in {"exc"} \cup ErrorStatuses => mr.response = None

\* A call that returned a status other than 200 after an attempt that failed.
C19_Witness ==
    /\ mr.pc = "done"
    /\ mr.requests >= 2
    /\ mr.response = "204"

(***************************************************************************)
(* save_wallpaper_ids_to_file (lines 159-174)                              *)
(***************************************************************************)

\* Longest identifier list handed to one call.
MaxIds == 3

\* Most lines wallpaper_ids.txt holds before the first call.
MaxLedgerLines == 2

\* Most persist calls in a row.
MaxPersistCalls == 2

\* Identifiers are the catalog's tokens, strings without whitespace: sequences
\* of characters.
Identifiers == {<<"a">>, <<"b">>, <<"a", "b">>}

Whitespace == {" ", "\n"}

Range(s) == {s[i] : i \in 1..Len(s)}

NoDuplicates(s) == \A i, j \in 1..Len(s) : s[i] = s[j] => i = j

\* The sequences over S of length at most n.
SeqsUpTo(S, n) == UNION {[1..m -> S] : m \in 0..n}

\* str.strip(): leading and trailing whitespace removed (line 164).
RECURSIVE lstrip(_)
lstrip(s) == IF s # <<>> /\ Head(s) \in Whitespace THEN lstrip(Tail(s)) ELSE s

RECURSIVE rstrip(_)
rstrip(s) ==
    IF s # <<>> /\ s[Len(s)] \in Whitespace
    THEN rstrip(SubSeq(s, 1, Len(s) - 1))
    ELSE s

strip(s) == lstrip(rstrip(s))

\* Where the first line of chars ends: at its first "\n", or at its end.
LineEnd(chars) ==
    IF \E i \in 1..Len(chars) : chars[i] = "\n"
    THEN CHOOSE i \in 1..Len(chars) :
             chars[i] = "\n" /\ \A j \in 1..(i - 1) : chars[j] # "\n"
    ELSE Len(chars)

\* for line in f (line 164): the lines of a file, each with its "\n".
RECURSIVE readlines(_)
readlines(chars) ==
    IF chars = <<>> THEN <<>>
    ELSE <<SubSeq(chars, 1, LineEnd(chars))>>
             \o readlines(SubSeq(chars, LineEnd(chars) + 1, Len(chars)))

\* The lines as read, with their line ends.
existing_ids_unstripped(chars, exists) ==
    IF exists THEN Range(readlines(chars)) ELSE {}

\* Lines 161-166: the stripped lines of the file, the empty set when it is missing.
existing_ids(chars, exists) ==
    IF exists THEN {strip(l) : l \in Range(readlines(chars))} ELSE {}

\* Lines 169-174: the loop over pic_ids against the set read before it.
RECURSIVE save_loop(_, _, _)
save_loop(pic_ids, existing, out) ==
    IF pic_ids = <<>> THEN out
    ELSE LET wallpaper_id == Head(pic_ids) IN
         save_loop(Tail(pic_ids), existing,
             IF wallpaper_id \notin existing
             THEN [file |-> out.file \o wallpaper_id \o <<"\n">>,
                   written |-> Append(out.written, wallpaper_id),
                   log |-> Append(out.log,
                       [level |-> "INFO", event |-> "saved", id |-> wallpaper_id])]
             ELSE [out EXCEPT !.log = Append(@,
                       [level |-> "INFO", event |-> "exists", id |-> wallpaper_id])])

\* The call with the file opened for writing ('w'), which empties it.
save_wallpaper_ids_to_file_truncating(pic_ids, chars, exists) ==
    save_loop(pic_ids, existing_ids(chars, exists),
              [file |-> <<>>, written |-> <<>>, log |-> <<>>])

\* The whole call: read the file if it is there, open it for appending (which
\* creates it), write the identifiers not read.
save_wallpaper_ids_to_file(pic_ids, chars, exists) ==
    save_loop(pic_ids, existing_ids(chars, exists),
              [file |-> chars, written |-> <<>>, log |-> <<>>])

\* The file that holds one line per identifier of ids.
RECURSIVE FileOf(_)
FileOf(ids) == IF ids = <<>> THEN <<>> ELSE Head(ids) \o <<"\n">> \o FileOf(Tail(ids))

\* The lines of the file without their line ends.
ledger_lines ==
    LET ls == readlines(ledger) IN
    [i \in 1..Len(ls) |->
        IF ls[i][Len(ls[i])] = "\n" THEN SubSeq(ls[i], 1, Len(ls[i]) - 1) ELSE ls[i]]

InitLedger ==
    /\ ScriptIdle
    /\ ExecIdle
    /\ PoolIdle
    /\ PagesIdle
    /\ id_list \in SeqsUpTo(Identifiers, MaxIds)
    /\ ledger0 \in SeqsUpTo(Identifiers, MaxLedgerLines)
    /\ ledgerExists \in (IF ledger0 = <<>> THEN BOOLEAN ELSE {TRUE})
    /\ ledger = FileOf(ledger0)
    /\ written = <<>>
    /\ ledgerLog = <<>>

\* One call save_wallpaper_ids_to_file(id_list).
Persist ==
    /\ Len(written) < MaxPersistCalls
    /\ LET out == save_wallpaper_ids_to_file(id_list, ledger, ledgerExists) IN
        /\ ledger' = out.file
        /\ ledgerExists' = TRUE
        /\ written' = Append(written, out.written)
        /\ ledgerLog' = ledgerLog \o out.log
    /\ UNCHANGED <<ledger0, id_list, execVars, scriptVars, poolVars, pageVars>>

NextLedger ==
    \/ Persist

SpecLedger == InitLedger /\ [][NextLedger]_vars

\* C3: after any number of persist calls with a list, against a file that held
\* no duplicates, the file holds exactly one line per unique identifier of the
\* file and the list, and no call wrote an identifier that was in the file
\* already or that it had written before.
C3_LedgerHoldsOneLinePerIdentifier ==
    (Len(written) >= 1 /\ NoDuplicates(ledger0)) =>
        /\ NoDuplicates(ledger_lines)
        /\ Range(ledger_lines) = Range(ledger0) \cup Range(id_list)
        /\ \A c \in 1..Len(written) :
               /\ NoDuplicates(written[c])
               /\ Range(written[c]) \cap Range(ledger0) = {}

(***************************************************************************)
(* download_wallpapers_concurrently and its units (lines 123-155, 178-201) *)
(***************************************************************************)

\* Longest identifier list handed to the pool.
MaxUnits == 2

\* Largest max_workers the pool is run with.
MaxWorkers == 2

\* The catalog's answer to a detail request: data.path of the item, as the
\* segments between the slashes of the URL. Two items may share a basename.
data_path(pic_id) ==
    CASE pic_id = <<"a">> -> <<"w.wallhaven.cc", "full", "a.jpg">>
      [] pic_id = <<"b">> -> <<"w.wallhaven.cc", "full", "b.jpg">>
      [] OTHER -> <<"w.wallhaven.cc", "alt", "a.jpg">>

\* original_image_url.split('/')[-1], line 183.
pic_filename(original_image_url) == original_image_url[Len(original_image_url)]

FileNames == {pic_filename(data_path(id)) : id \in Identifiers}

\* What get_wallpaper_details hands back when it returns None.
NoUrl == <<>>

\* How the one request of line 125 is sent: requests.get called directly,
\* without proxies= and outside make_request.
detail_request == [requests |-> 1, proxied |-> FALSE]

\* get_wallpaper_details (lines 123-136) when requests.get does o and, for a
\* 200, the body holds data.path or not. It uses requests.get directly: one
\* request, no retry. answer tells the outcomes apart: the path was read
\* ("ok"), the body had none ("no_path", a KeyError that line 134 does not
\* catch), the request raised or was rate-limited ("transient"), or the
\* status was another one than 200 ("rejected").
get_wallpaper_details(pic_id, o, has_path) ==
    IF o = "exc" THEN [url |-> NoUrl, raised |-> FALSE, answer |-> "transient"]
    ELSE IF o = "200"
         THEN IF has_path
              THEN [url |-> data_path(pic_id), raised |-> FALSE, answer |-> "ok"]
              ELSE [url |-> NoUrl, raised |-> TRUE, answer |-> "no_path"]
    ELSE [url |-> NoUrl, raised |-> FALSE,
          answer |-> IF o = "429" THEN "transient" ELSE "rejected"]

\* os.path.exists(pic_filepath), line 187.
path_exists_never(f) == FALSE
path_exists(f) == files[f] # "absent"

Units == 1..Len(wallpaper_ids)

\* The units a worker thread is running.
InFlight == {i \in Units : unit[i].pc \in {"resolve", "download", "write"}}

\* ThreadPoolExecutor(max_workers): a queued unit starts only on a free worker.
worker_always_free == TRUE
worker_free == Cardinality(InFlight) < max_workers

\* The with-block's exit, executor.shutdown(wait=True): returns when every
\* unit has finished.
shutdown_no_wait == TRUE
shutdown_wait == \A i \in Units : unit[i].pc = "done"

\* What a make_request call can hand to download_image, over all the answers
\* the network can give: the response, and whether the call logged an error.
download_requests ==
    {[response |-> make_request(answers).response,
      errors |-> \E n \in 1..Len(make_request(answers).log) :
                    make_request(answers).log[n].level = "ERROR"] :
        answers \in [1..retries -> Outcomes]}

\* A unit before it is submitted. detail, detail_requests and detail_proxied
\* describe its detail request, dl_calls and dl_response its make_request call
\* in download_image.
unit_start ==
    [pc |-> "unsubmitted", url |-> NoUrl, outcome |-> "none",
     detail |-> "unsent", detail_requests |-> 0, detail_proxied |-> FALSE,
     dl_calls |-> 0, dl_response |-> "unsent", error_logged |-> FALSE]

InitPool ==
    /\ ScriptIdle
    /\ ExecIdle
    /\ LedgerIdle
    /\ PagesIdle
    /\ wallpaper_ids \in SeqsUpTo(Identifiers, MaxUnits)
    /\ max_workers \in 1..MaxWorkers
    /\ files0 \in [FileNames -> {"absent", "old"}]
    /\ files = files0
    /\ orch = [pc |-> "running", submitted |-> 0, collected |-> 0, exc |-> FALSE]
    /\ unit = [i \in 1..Len(wallpaper_ids) |-> unit_start]
    /\ writers = [f \in FileNames |-> {}]
    /\ openedBy = [f \in FileNames |-> {}]

\* Line 198: executor.submit(main, wallpaper_id, directory) for the next identifier.
Submit ==
    /\ orch.pc = "running"
    /\ orch.submitted < Len(wallpaper_ids)
    /\ orch' = [orch EXCEPT !.submitted = @ + 1]
    /\ unit' = [unit EXCEPT ![orch.submitted + 1].pc = "queued"]
    /\ UNCHANGED <<wallpaper_ids, max_workers, files, files0, writers, openedBy,
                   execVars, scriptVars, ledgerVars, pageVars>>

\* A worker thread takes the oldest queued unit and calls main, which sends the
\* detail request (lines 178-179, 125).
UStart(i) ==
    /\ unit[i].pc = "queued"
    /\ \A j \in 1..(i - 1) : unit[j].pc # "queued"
    /\ worker_free
    /\ unit' = [unit EXCEPT ![i].pc = "resolve"]
    /\ UNCHANGED <<wallpaper_ids, max_workers, files, files0, orch, writers,
                   openedBy, execVars, scriptVars, ledgerVars, pageVars>>

\* The detail request ends and main acts on it (lines 125-136, 179-192): it
\* raises, logs that there is no URL, skips an existing file or goes on to
\* download_image.
UResolve(i) ==
    /\ unit[i].pc = "resolve"
    /\ \E o \in Outcomes, has_path \in BOOLEAN :
          LET d == get_wallpaper_details(wallpaper_ids[i], o, has_path)
              asked == [unit[i] EXCEPT !.detail = d.answer,
                                       !.detail_requests = detail_request.requests,
                                       !.detail_proxied = detail_request.proxied]
          IN
          unit' = [unit EXCEPT ![i] =
              IF d.raised
              THEN [asked EXCEPT !.pc = "done", !.outcome = "raised"]
              ELSE IF d.url = NoUrl
              THEN [asked EXCEPT !.pc = "done", !.outcome = "failed_logged",
                                 !.error_logged = TRUE]
              ELSE IF path_exists(pic_filename(d.url))
              THEN [asked EXCEPT !.pc = "done", !.outcome = "skipped", !.url = d.url]
              ELSE [asked EXCEPT !.pc = "download", !.url = d.url]]
    /\ UNCHANGED <<wallpaper_ids, max_workers, files, files0, orch, writers,
                   openedBy, execVars, scriptVars, ledgerVars, pageVars>>

\* download_image up to the open (lines 141-145): the make_request call, then
\* the AttributeError on a None response, the error log on a status other
\* than 200, or open(filename, 'wb'), which creates or truncates the file.
UDownload(i) ==
    /\ unit[i].pc = "download"
    /\ \E r \in download_requests :
          LET f == pic_filename(unit[i].url)
              called == [unit[i] EXCEPT !.dl_calls = @ + 1,
                                        !.dl_response = r.response,
                                        !.error_logged = @ \/ r.errors]
          IN
          IF r.response = None
          THEN /\ unit' = [unit EXCEPT ![i] =
                      [called EXCEPT !.pc = "done", !.outcome = "raised"]]
               /\ UNCHANGED <<files, writers, openedBy>>
          ELSE IF r.response = "200"
          THEN /\ unit' = [unit EXCEPT ![i] = [called EXCEPT !.pc = "write"]]
               /\ files' = [files EXCEPT ![f] = "empty"]
               /\ writers' = [writers EXCEPT ![f] = @ \cup {i}]
               /\ openedBy' = [openedBy EXCEPT ![f] = @ \cup {i}]
          ELSE /\ unit' = [unit EXCEPT ![i] =
                      [called EXCEPT !.pc = "done", !.outcome = "failed_logged",
                                     !.error_logged = TRUE]]
               /\ UNCHANGED <<files, writers, openedBy>>
    /\ UNCHANGED <<wallpaper_ids, max_workers, files0, orch, execVars, scriptVars, ledgerVars, pageVars>>

\* The chunk loop and the end of the with-block (lines 145-153): the body is
\* written and the file closed, or the stream breaks, the file is closed with
\* what was written and the exception leaves main.
UWrite(i) ==
    /\ unit[i].pc = "write"
    /\ LET f == pic_filename(unit[i].url) IN
       /\ writers' = [writers EXCEPT ![f] = @ \ {i}]
       /\ \E complete \in BOOLEAN :
             IF complete
             THEN /\ files' = [files EXCEPT ![f] = "full"]
                  /\ unit' = [unit EXCEPT ![i].pc = "done", ![i].outcome = "saved"]
             ELSE /\ files' = [files EXCEPT ![f] = "partial"]
                  /\ unit' = [unit EXCEPT ![i].pc = "done", ![i].outcome = "raised"]
    /\ UNCHANGED <<wallpaper_ids, max_workers, files0, orch, openedBy,
                   execVars, scriptVars, ledgerVars, pageVars>>

\* Line 201, future.result() on the next future: it waits for the unit, and
\* re-raises what the unit raised, which ends the loop.
Result ==
    /\ orch.pc = "running"
    /\ orch.submitted = Len(wallpaper_ids)
    /\ orch.collected < Len(wallpaper_ids)
    /\ unit[orch.collected + 1].pc = "done"
    /\ orch' = IF unit[orch.collected + 1].outcome = "raised"
               THEN [orch EXCEPT !.collected = @ + 1, !.pc = "shutdown", !.exc = TRUE]
               ELSE [orch EXCEPT !.collected = @ + 1]
    /\ UNCHANGED <<wallpaper_ids, max_workers, files, files0, unit, writers,
                   openedBy, execVars, scriptVars, ledgerVars, pageVars>>

\* The loop of lines 200-201 is through: control reaches the end of the with-block.
EndLoop ==
    /\ orch.pc = "running"
    /\ orch.submitted = Len(wallpaper_ids)
    /\ orch.collected = Len(wallpaper_ids)
    /\ orch' = [orch EXCEPT !.pc = "shutdown"]
    /\ UNCHANGED <<wallpaper_ids, max_workers, files, files0, unit, writers,
                   openedBy, execVars, scriptVars, ledgerVars, pageVars>>

\* The with-block's exit (line 197): shutdown(wait=True), then the function
\* returns or the exception of line 201 goes on to the caller.
Shutdown ==
    /\ orch.pc = "shutdown"
    /\ shutdown_wait
    /\ orch' = [orch EXCEPT !.pc = IF orch.exc THEN "raised" ELSE "returned"]
    /\ UNCHANGED <<wallpaper_ids, max_workers, files, files0, unit, writers,
                   openedBy, execVars, scriptVars, ledgerVars, pageVars>>

NextPool ==
    \/ Submit
    \/ \E i \in Units : UStart(i)
    \/ \E i \in Units : UResolve(i)
    \/ \E i \in Units : UDownload(i)
    \/ \E i \in Units : UWrite(i)
    \/ Result
    \/ EndLoop
    \/ Shutdown

SpecPool == InitPool /\ [][NextPool]_vars

\* download_wallpapers_concurrently has returned or raised.
OrchLeft == orch.pc \in {"returned", "raised"}

\* The file unit i resolved to.
Destination(i) == pic_filename(unit[i].url)

\* C4: a file that exists when a unit reaches the check of line 187 is not
\* fetched and not written by that unit: the unit makes no download request
\* and never opens the file; and a file that was there before the run keeps
\* its contents, is opened by no unit and has no download request made for it.
C4_ExistingFileIsNeitherFetchedNorWritten ==
    /\ \A i \in Units :
          unit[i].outcome = "skipped" =>
              /\ unit[i].dl_calls = 0
              /\ i \notin openedBy[Destination(i)]
    /\ \A f \in FileNames :
          files0[f] # "absent" =>
              /\ files[f] = files0[f]
              /\ openedBy[f] = {}
              /\ \A i \in Units :
                    (unit[i].url # NoUrl /\ Destination(i) = f) => unit[i].dl_calls = 0

\* C4 witness: the run is over and a unit resolved its identifier, found the
\* file that was there before the run and skipped the download.
C4_Witness ==
    /\ OrchLeft
    /\ \E i \in Units :
          /\ unit[i].outcome = "skipped"
          /\ files0[Destination(i)] = "old"
          /\ files[Destination(i)] = "old"

\* C5: under every interleaving no file is open for writing by two units at
\* once, and no file is opened for writing (created or truncated) by more than
\* one unit of a run.
C5_NoFileWrittenByTwoUnits ==
    \A f \in FileNames :
        /\ Cardinality(writers[f]) <= 1
        /\ Cardinality(openedBy[f]) <= 1

\* C6: when the orchestrator is left, every list position has exactly one
\* completed outcome, and it is a success (saved or skipped) or a failure
\* logged at error level.
C6_EveryUnitSucceedsOrLogsItsFailure ==
    OrchLeft =>
        \A i \in Units :
            /\ unit[i].pc = "done"
            /\ \/ unit[i].outcome \in {"saved", "skipped"}
               \/ unit[i].outcome \in {"failed_logged", "raised"} /\ unit[i].error_logged

\* C7: the units started and not yet finished never outnumber max_workers.
C7_InFlightAtMostMaxWorkers == Cardinality(InFlight) <= max_workers

\* C7 witness: every worker of the pool is busy while a submitted unit waits.
C7_Witness ==
    /\ Cardinality(InFlight) = max_workers
    /\ \E i \in Units : unit[i].pc = "queued"

\* C8: the orchestrator is left, by return or by raising, only when every
\* scheduled unit has run to its end; none is left unstarted or cancelled,
\* whatever the other units did.
C8_LeavesOnlyAfterEveryUnitCompleted ==
    OrchLeft =>
        \A i \in Units :
            /\ unit[i].pc = "done"
            /\ unit[i].outcome \in {"saved", "skipped", "failed_logged", "raised"}

\* C8 witness: with one worker the first unit raised, the second unit started
\* after that and saved its file, and the orchestrator left by raising.
C8_Witness ==
    /\ orch.pc = "raised"
    /\ max_workers = 1
    /\ Len(wallpaper_ids) >= 2
    /\ unit[1].outcome = "raised"
    /\ unit[2].outcome = "saved"

\* C9: when the orchestrator is left, the result of every unit that raised has
\* been retrieved by line 201.
C9_EveryRaisedExceptionIsRetrieved ==
    OrchLeft =>
        \A i \in Units : unit[i].outcome = "raised" => i <= orch.collected

(***************************************************************************)
(* get_wallpaper_ids (lines 102-119) with fetch_wallpaper_ids_paginated     *)
(* (lines 71-99) and fetch_wallpaper_ids_single (lines 48-68), driven by    *)
(* lines 257-263                                                            *)
(***************************************************************************)

\* Largest page number of a link.
MaxPages == 3

\* Most identifiers the catalog holds on one page.
MaxPageItems == 2

Digits == <<"0", "1", "2", "3", "4", "5", "6", "7", "8", "9">>

digit_value(c) == CHOOSE d \in 0..9 : Digits[d + 1] = c

\* int(params['page']), line 260: a string of decimal digits to its number.
RECURSIVE int(_)
int(s) ==
    IF s = <<>> THEN 0
    ELSE 10 * int(SubSeq(s, 1, Len(s) - 1)) + digit_value(s[Len(s)])

\* The page values of the links: "0" .. "3", and "01" .. "03".
PageValues ==
    {<<Digits[n + 1]>> : n \in 0..MaxPages}
        \cup {<<"0", Digits[n + 1]>> : n \in 1..MaxPages}

\* What a make_request call can hand to the collector, over all the answers
\* the network can give: the response, and whether the call logged an error.
page_requests ==
    {[response |-> make_request(answers).response,
      errors |-> \E n \in 1..Len(make_request(answers).log) :
                    make_request(answers).log[n].level = "ERROR"] :
        answers \in [1..retries -> Outcomes]}

\* The frame of the collector on entry. calls holds the page parameter of each
\* make_request call (0 when the query has none), failed counts the calls that
\* gave no 200 response, errors_logged the error entries of lines 66 and 94.
pg_start(mode, start_page, end_page) ==
    [mode |-> mode, pc |-> "loop", start_page |-> start_page,
     end_page |-> end_page, _page |-> start_page,
     pic_ids |-> <<>>, calls |-> <<>>, received |-> <<>>,
     sleeps |-> 0, failed |-> 0, errors_logged |-> 0]

\* Lines 257-263 and 112-117: with a page parameter in the link, the paginated
\* collection with start_page = 1 from the driver (any start page from another
\* caller) and end_page = int(params['page']); without one (page_value empty),
\* the single request.
CollectorStart ==
    \/ /\ page_value \in PageValues
       /\ \E start_page \in 1..2 :
             pg = pg_start("paginated", start_page, int(page_value))
    \/ /\ page_value = <<>>
       /\ pg = pg_start("single", 1, 1)

InitPages ==
    /\ ScriptIdle
    /\ ExecIdle
    /\ LedgerIdle
    /\ PoolIdle
    /\ page_items \in [1..MaxPages -> SeqsUpTo(Identifiers, MaxPageItems)]
    /\ CollectorStart

\* One pass of the loop of lines 82-97 for page pg._page: the page parameter
\* is set, make_request is called, and then the AttributeError of line 86 on a
\* None response, or the identifiers of a 200 response are added, or the
\* error of line 94 is logged; after either of the last two, the sleep.
FetchPage ==
    /\ pg.mode = "paginated"
    /\ pg.pc = "loop"
    /\ pg._page <= pg.end_page
    /\ \E r \in page_requests :
          LET called == [pg EXCEPT !.calls = Append(@, pg._page)] IN
          pg' = IF r.response = None
                THEN [called EXCEPT !.pc = "raised", !.failed = @ + 1]
                ELSE IF r.response = "200"
                THEN [called EXCEPT !.pic_ids = @ \o page_items[pg._page],
                                    !.received = Append(@, page_items[pg._page]),
                                    !.sleeps = @ + 1,
                                    !._page = @ + 1]
                ELSE [called EXCEPT !.received = Append(@, <<>>),
                                    !.failed = @ + 1,
                                    !.errors_logged = @ + 1,
                                    !.sleeps = @ + 1,
                                    !._page = @ + 1]
    /\ UNCHANGED <<page_value, page_items, execVars, scriptVars, ledgerVars, poolVars>>

\* range(start_page, end_page + 1) is used up: return pic_ids (line 99).
FetchReturn ==
    /\ pg.mode = "paginated"
    /\ pg.pc = "loop"
    /\ pg._page > pg.end_page
    /\ pg' = [pg EXCEPT !.pc = "returned"]
    /\ UNCHANGED <<page_value, page_items, execVars, scriptVars, ledgerVars, poolVars>>

\* fetch_wallpaper_ids_single (lines 55-68): the one make_request call, then
\* the AttributeError of line 58 on a None response, or the identifiers of a
\* 200 response, or the error of line 66 and the empty list.
FetchSingle ==
    /\ pg.mode = "single"
    /\ pg.pc = "loop"
    /\ \E r \in page_requests :
          LET called == [pg EXCEPT !.calls = Append(@, 0)] IN
          pg' = IF r.response = None
                THEN [called EXCEPT !.pc = "raised", !.failed = @ + 1]
                ELSE IF r.response = "200"
                THEN [called EXCEPT !.pc = "returned",
                                    !.pic_ids = @ \o page_items[1],
                                    !.received = Append(@, page_items[1])]
                ELSE [called EXCEPT !.pc = "returned",
                                    !.received = Append(@, <<>>),
                                    !.failed = @ + 1,
                                    !.errors_logged = @ + 1]
    /\ UNCHANGED <<page_value, page_items, execVars, scriptVars, ledgerVars, poolVars>>

NextPages ==
    \/ FetchPage
    \/ FetchReturn
    \/ FetchSingle

SpecPages == InitPages /\ [][NextPages]_vars

\* The concatenation of a sequence of lists.
RECURSIVE Concat(_)
Concat(lists) == IF lists = <<>> THEN <<>> ELSE Head(lists) \o Concat(Tail(lists))

\* The pages start_page .. end_page in ascending order.
PagesInOrder ==
    [n \in 1..(IF pg.end_page >= pg.start_page
               THEN pg.end_page - pg.start_page + 1 ELSE 0) |-> pg.start_page + n - 1]

\* C10: the paginated collection ends by returning; it has made exactly one
\* make_request call per page of start_page..end_page, in ascending order with
\* the page parameter set to the page, and it returns the concatenation of the
\* identifier lists of these pages in page order, duplicates kept.
C10_ReturnsConcatenationOfAllPages ==
    (pg.mode = "paginated" /\ pg.pc # "loop") =>
        /\ pg.pc = "returned"
        /\ pg.calls = PagesInOrder
        /\ Len(pg.received) = Len(PagesInOrder)
        /\ pg.pic_ids = Concat(pg.received)

\* C13: a unit whose download make_request call returned no response has
\* logged an error and ended without raising, after that one call.
C13_FailedDownloadIsLoggedNotRaised ==
    \A i \in Units :
        unit[i].dl_response = None =>
            /\ unit[i].pc = "done"
            /\ unit[i].outcome = "failed_logged"
            /\ unit[i].error_logged
            /\ unit[i].dl_calls = 1

\* C14: a unit whose detail resolution failed in any way (exception, status
\* other than 200, body without data.path) has logged an error, ended without
\* raising, made no download request and opened no file.
C14_FailedResolutionAbandonsIdentifier ==
    \A i \in Units :
        unit[i].detail \in {"transient", "rejected", "no_path"} =>
            /\ unit[i].pc = "done"
            /\ unit[i].outcome = "failed_logged"
            /\ unit[i].error_logged
            /\ unit[i].dl_calls = 0
            /\ \A f \in FileNames : i \notin openedBy[f]

\* C18: every detail request is sent by make_request: through the proxy, and
\* when a 429 or a transport failure makes the unit abandon its identifier,
\* all 3 attempts have been made.
C18_DetailRequestGoesThroughExecutor ==
    \A i \in Units :
        unit[i].detail_requests > 0 =>
            /\ unit[i].detail_proxied
            /\ unit[i].detail = "transient" => unit[i].detail_requests = retries

\* C11: in the paginated collection a page whose request fails never makes the
\* function raise; the failure is logged as an error, the sleep follows every
\* page, failed or not, and when the function is left every page of
\* start_page..end_page has been requested and the identifiers of the pages
\* answered by 200 are returned.
C11_FailedPageIsLoggedAndCollectionGoesOn ==
    pg.mode = "paginated" =>
        /\ pg.pc # "raised"
        /\ pg.sleeps = Len(pg.calls)
        /\ pg.errors_logged = pg.failed
        /\ pg.pc = "returned" =>
               /\ pg.calls = PagesInOrder
               /\ pg.pic_ids = Concat(pg.received)

\* C12: in the single-shot collection, when the one request gives no 200
\* response, the collector has logged an error and returns the empty list; it
\* does not raise.
C12_FailedSingleRequestReturnsEmptyList ==
    (pg.mode = "single" /\ pg.pc # "loop" /\ pg.failed > 0) =>
        /\ pg.pc = "returned"
        /\ pg.pic_ids = <<>>
        /\ pg.errors_logged = 1

(***************************************************************************)
(* save_wallpaper_ids_to_file as an operation on the file (lines 159-174)  *)
(***************************************************************************)

\* The lines the file holds when call c starts: those of before the first
\* call, then what the calls before c wrote.
lines_before(c) == ledger0 \o Concat(SubSeq(written, 1, c - 1))

\* The identifiers of id_list that are not among the lines, in input order.
not_yet_present(lines) == SelectSeq(id_list, LAMBDA id : id \notin Range(lines))

\* C17: a persist call only appends: the file is always the lines it held
\* before the first call followed by what each call wrote, and each call wrote
\* the identifiers of its input list that were not in the file when it
\* started, in input order.
C17_PersistAppendsTheMissingIdentifiers ==
    /\ ledger = FileOf(ledger0 \o Concat(written))
    /\ \A c \in 1..Len(written) : written[c] = not_yet_present(lines_before(c))

\* A call against a file that held lines has skipped an identifier and
\* appended another.
C17_Witness ==
    /\ Len(written) >= 1
    /\ ledger0 # <<>>
    /\ written[1] # <<>>
    /\ Len(written[1]) < Len(id_list)

\* C20: a persist call with the same list right after another appends no
\* line: the file after two or more calls is the file after the first.
C20_SecondPersistAppendsNothing ==
    Len(written) >= 2 =>
        /\ \A c \in 2..Len(written) : written[c] = <<>>
        /\ ledger = FileOf(ledger0 \o written[1])

\* Two calls with a list that repeats an identifier the file did not hold.
C20_Witness ==
    /\ Len(written) >= 2
    /\ ~NoDuplicates(written[1])

(***************************************************************************)
(* parse_url_params (lines 41-44)                                          *)
(***************************************************************************)

\* Most fields in the query string of a link.
MaxFields == 3

\* What stands before the query in a link, "https://wallhaven.cc/search".
Base == <<"h">>

\* The fields a query string is put together from: a name, "=" or not, and a
\* value as it stands in the link: blank, plain, or with a "+" in it.
Fields ==
    {f \in [name : {<<"k">>, <<"j">>}, eq : BOOLEAN,
            value : {<<>>, <<"v">>, <<"w", "+">>}] :
        ~f.eq => f.value = <<>>}

FieldText(f) == f.name \o (IF f.eq THEN <<"=">> ELSE <<>>) \o f.value

\* The fields joined by "&".
RECURSIVE QueryText(_)
QueryText(fs) ==
    IF fs = <<>> THEN <<>>
    ELSE IF Len(fs) = 1 THEN FieldText(fs[1])
    ELSE FieldText(fs[1]) \o <<"&">> \o QueryText(Tail(fs))

\* The first index of c in chars, 0 when it is not there.
find(chars, c) ==
    IF \E i \in 1..Len(chars) : chars[i] = c
    THEN CHOOSE i \in 1..Len(chars) : chars[i] = c /\ \A j \in 1..(i - 1) : chars[j] # c
    ELSE 0

\* urlparse(_url).query (line 42): the fragment is cut off at the first "#",
\* the query is what follows the first "?" of the rest.
urlparse_query(_url) ==
    LET hash == find(_url, "#")
        rest == IF hash = 0 THEN _url ELSE SubSeq(_url, 1, hash - 1)
        q == find(rest, "?")
    IN  IF q = 0 THEN <<>> ELSE SubSeq(rest, q + 1, Len(rest))

\* str.split(sep): the pieces between the separators.
RECURSIVE split(_, _)
split(chars, sep) ==
    IF find(chars, sep) = 0 THEN <<chars>>
    ELSE <<SubSeq(chars, 1, find(chars, sep) - 1)>>
             \o split(SubSeq(chars, find(chars, sep) + 1, Len(chars)), sep)

\* What parse_qs does to a name or a value: "+" becomes a space (the links
\* here hold no "%" escapes).
unquote_plus(chars) == [i \in 1..Len(chars) |-> IF chars[i] = "+" THEN " " ELSE chars[i]]

\* The loop of parse_qs over the pieces of the query, with its defaults
\* keep_blank_values=False and strict_parsing=False: a piece without "=" and a
\* piece with a blank value are passed over.
RECURSIVE parse_qsl(_)
parse_qsl(pieces) ==
    IF pieces = <<>> THEN <<>>
    ELSE LET name_value == Head(pieces)
             eq == find(name_value, "=")
             value == SubSeq(name_value, eq + 1, Len(name_value))
         IN  (IF eq = 0 \/ value = <<>> THEN <<>>
              ELSE <<[name |-> unquote_plus(SubSeq(name_value, 1, eq - 1)),
                      value |-> unquote_plus(value)]>>)
                 \o parse_qsl(Tail(pieces))

\* The values of the pairs named k, in order.
RECURSIVE values_of(_, _)
values_of(pairs, k) ==
    IF pairs = <<>> THEN <<>>
    ELSE (IF Head(pairs).name = k THEN <<Head(pairs).value>> ELSE <<>>)
             \o values_of(Tail(pairs), k)

\* parse_qs(query) (line 43): a dict from each name to the list of its values.
parse_qs(query) ==
    LET pairs == parse_qsl(split(query, "&")) IN
    [k \in {pairs[i].name : i \in 1..Len(pairs)} |-> values_of(pairs, k)]

\* A str and a list of str, the two kinds of value of the mapping.
Scalar(chars) == [kind |-> "str", v |-> chars]

List(vs) == [kind |-> "list", v |-> vs]

\* Line 44 with v[0] taken whatever the length.
first_or_list_always_first(v) == Scalar(v[1])

\* Line 44: v[0] if len(v) == 1 else v.
first_or_list(v) == IF Len(v) = 1 THEN Scalar(v[1]) ELSE List(v)

parse_url_params(_url) ==
    LET _params == parse_qs(urlparse_query(_url)) IN
    [k \in DOMAIN _params |-> first_or_list(_params[k])]

\* A link: the base, a query string or none, a fragment or none.
InitParse ==
    /\ ExecIdle /\ LedgerIdle /\ PoolIdle /\ PagesIdle
    /\ run = "none"
    /\ fields \in SeqsUpTo(Fields, MaxFields)
    /\ \E mark \in (IF fields = <<>> THEN {<<>>, <<"?">>} ELSE {<<"?">>}),
          fragment \in {<<>>, <<"#", "k", "=", "v">>} :
            link = Base \o mark \o QueryText(fields) \o fragment
    /\ ps = [pc |-> "start", params |-> <<>>]

\* params = parse_url_params(url), line 237.
ParseUrlParams ==
    /\ ps.pc = "start"
    /\ ps' = [pc |-> "done", params |-> parse_url_params(link)]
    /\ UNCHANGED <<link, fields, run, execVars, ledgerVars, poolVars, pageVars>>

NextParse ==
    \/ ParseUrlParams

SpecParse == InitParse /\ [][NextParse]_vars

\* The values, as parse_qs decodes them, of the fields among fs named k.
RECURSIVE occurrences(_, _)
occurrences(fs, k) ==
    IF fs = <<>> THEN <<>>
    ELSE (IF Head(fs).name = k THEN <<unquote_plus(Head(fs).value)>> ELSE <<>>)
             \o occurrences(Tail(fs), k)

\* The fields that give a parameter a value, blank or not.
Parameters == SelectSeq(fields, LAMBDA f : f.eq)

\* The fields that give a parameter a value that is not blank.
ValuedParameters == SelectSeq(fields, LAMBDA f : f.eq /\ f.value # <<>>)

\* The mapping holds exactly the names of fs: a name that occurs once in fs
\* with its value as a scalar, a name that occurs several times with the
\* sequence of its values in order.
MapsOccurrences(fs) ==
    /\ DOMAIN ps.params = {fs[i].name : i \in 1..Len(fs)}
    /\ \A k \in DOMAIN ps.params :
           LET vs == occurrences(fs, k) IN
           /\ Len(vs) = 1 => ps.params[k] = Scalar(vs[1])
           /\ Len(vs) > 1 => ps.params[k] = List(vs)

\* C16 as stated: every parameter of the link is a key of the mapping, with a
\* scalar when it occurs once and the sequence of its values when it occurs
\* several times.
C16_EveryParameterIsMapped ==
    ps.pc = "done" => MapsOccurrences(Parameters)

\* C16 amended: the keys of the mapping are the parameters that have a
\* non-blank value somewhere in the link; counting only its occurrences with a
\* non-blank value, a parameter that occurs once is mapped to that value as a
\* scalar and one that occurs several times to the sequence of those values in
\* order; a link without a query string gives the empty mapping.
C16_EveryNonBlankParameterIsMapped ==
    ps.pc = "done" =>
        /\ MapsOccurrences(ValuedParameters)
        /\ find(link, "?") = 0 => DOMAIN ps.params = {}

\* A link parsed to a mapping with a scalar and with a sequence of two values.
C16_Witness ==
    /\ ps.pc = "done"
    /\ \E k, j \in DOMAIN ps.params :
          /\ ps.params[k].kind = "str"
          /\ ps.params[j].kind = "list"
          /\ Len(ps.params[j].v) = 2

(***************************************************************************)
(* The script (lines 257-273): collect, persist, download                  *)
(***************************************************************************)

\* max_workers of the call at line 273.
script_max_workers == 5

\* Catalogs whose pages hold no more identifiers than the pool model takes.
Catalogs ==
    {c \in [1..MaxPages -> SeqsUpTo(Identifiers, MaxPageItems)] :
        Len(Concat(c)) <= MaxUnits}

\* Lines 257-263: with a page parameter the collector runs over pages
\* 1..int(params['page']), without one it makes the single request.
ScriptCollectorStart ==
    \/ /\ page_value \in {v \in PageValues : Len(v) = 1}
       /\ pg = pg_start("paginated", 1, int(page_value))
    \/ /\ page_value = <<>>
       /\ pg = pg_start("single", 1, 1)

\* The script at line 257: the link is parsed, nothing is collected, the
\* folder holds every file or none, wallpaper_ids.txt is there or not.
InitMain ==
    /\ ExecIdle
    /\ link = <<>> /\ fields = <<>> /\ ps = <<>>
    /\ run = "collect"
    /\ page_items \in Catalogs
    /\ ScriptCollectorStart
    /\ ledger0 \in SeqsUpTo(Identifiers, MaxLedgerLines - 1)
    /\ ledgerExists \in (IF ledger0 = <<>> THEN BOOLEAN ELSE {TRUE})
    /\ ledger = FileOf(ledger0)
    /\ id_list = <<>>
    /\ written = <<>>
    /\ ledgerLog = <<>>
    /\ wallpaper_ids = <<>>
    /\ max_workers = script_max_workers
    /\ files0 \in {[f \in FileNames |-> c] : c \in {"absent", "old"}}
    /\ files = files0
    /\ orch = [pc |-> "idle", submitted |-> 0, collected |-> 0, exc |-> FALSE]
    /\ unit = <<>>
    /\ writers = [f \in FileNames |-> {}]
    /\ openedBy = [f \in FileNames |-> {}]

\* The exception of the collector leaves the script at line 261 or 263.
MainCollectionRaises ==
    /\ run = "collect"
    /\ pg.pc = "raised"
    /\ run' = "crashed"
    /\ UNCHANGED <<link, fields, ps, execVars, ledgerVars, poolVars, pageVars>>

\* Lines 261-267: the collector has returned and its list is handed to
\* save_wallpaper_ids_to_file.
MainPersist ==
    /\ run = "collect"
    /\ pg.pc = "returned"
    /\ LET out == save_wallpaper_ids_to_file(pg.pic_ids, ledger, ledgerExists) IN
        /\ ledger' = out.file
        /\ ledgerExists' = TRUE
        /\ written' = Append(written, out.written)
        /\ ledgerLog' = ledgerLog \o out.log
    /\ id_list' = pg.pic_ids
    /\ run' = "persisted"
    /\ UNCHANGED <<ledger0, link, fields, ps, execVars, poolVars, pageVars>>

\* Line 273: download_wallpapers_concurrently(wallpaper_ids, local_folder,
\* max_workers=5) opens its pool (line 197).
MainStartPool ==
    /\ run = "persisted"
    /\ wallpaper_ids' = id_list
    /\ max_workers' = script_max_workers
    /\ orch' = [orch EXCEPT !.pc = "running"]
    /\ unit' = [i \in 1..Len(id_list) |-> unit_start]
    /\ run' = "pool"
    /\ UNCHANGED <<files, files0, writers, openedBy, link, fields, ps,
                   execVars, ledgerVars, pageVars>>

\* download_wallpapers_concurrently returns, and the script ends, or raises.
MainEnd ==
    /\ run = "pool"
    /\ OrchLeft
    /\ run' = IF orch.pc = "raised" THEN "crashed" ELSE "ended"
    /\ UNCHANGED <<link, fields, ps, execVars, ledgerVars, poolVars, pageVars>>

NextMain ==
    \/ NextPages
    \/ MainCollectionRaises
    \/ MainPersist
    \/ MainStartPool
    \/ NextPool
    \/ MainEnd

SpecMain == InitMain /\ [][NextMain]_vars

\* C15: every run makes exactly one persist call; the call comes after the
\* collector has made its last request and returned, and before the pool is
\* opened and any unit is submitted; and the file is at all times what it was
\* before the run followed by what that call wrote, so nothing else writes it.
C15_LedgerWrittenOnceBetweenCollectionAndPool ==
    /\ Len(written) <= 1
    /\ Len(written) = 1 => pg.pc = "returned"
    /\ orch.pc # "idle" => Len(written) = 1
    /\ run \in {"ended", "crashed"} => Len(written) = 1
    /\ ledger = FileOf(ledger0 \o Concat(written))

====
